---- MODULE Spec2Model ----
(***************************************************************************)
(* Model of gradientmodel.py: mag_field, surface_impedance and             *)
(* rough_properties.                                                       *)
(*                                                                         *)
(* Numbers are symbolic terms: a record whose field fn names the operation *)
(* of the source expression and whose other fields are its operands, so    *)
(* two values are equal exactly when the same expression was built from    *)
(* the same inputs.  Input literals are integers (Num).  An ndarray that   *)
(* the caller owns or that the code fills by index is an object on the     *)
(* heap (Ref); the result of a vectorised numpy expression is an array     *)
(* value (Arr).  The hypergeometric evaluators are external: they reject   *)
(* an ndarray argument, fail to converge on the parameters the environment *)
(* variable noconv names, and otherwise return a term.                     *)
(***************************************************************************)
EXTENDS Integers, Sequences, FiniteSets, TLC

\* Longest caller-supplied ndarray.
MaxLen == 2

\* Default dc conductivity of the three entry points.
Sigma0Default == 58000000

RqVals == {1, 2}
FreqVals == {0, 1, 2}
PosVals == {-5 * r : r \in RqVals}
SigmaVals == {Sigma0Default, 37000000}

VARIABLES
    pc,       \* position in the innermost active frame
    op,       \* the entry point the caller called
    args,     \* the caller's argument values
    heap,     \* ndarray objects: heap[id] is the contents of object id
    snap,     \* the heap as it was when the call started
    mf,       \* frame of mag_field
    si,       \* frame of surface_impedance
    rp,       \* frame of rough_properties
    exc,      \* the exception in flight, "" when none
    outcome,  \* what the call handed back to the caller
    work,     \* numeric work done by the call, in order
    last,     \* an earlier call the caller remembers, with its result
    noconv    \* where the external evaluators do not converge

vars == <<pc, op, args, heap, snap, mf, si, rp, exc, outcome, work, last, noconv>>

----------------------------------------------------------------------------
\* Python values

NoneV == [fn |-> "None"]
Unset == [fn |-> "unset"]
Uninit == [fn |-> "uninit"]
Num(n) == [fn |-> "num", n |-> n]
Half == [fn |-> "0.5"]
ImagUnit == [fn |-> "1j"]
Pi == [fn |-> "pi"]
Mu0 == [fn |-> "mu_0"]
Ref(id) == [fn |-> "ref", id |-> id]
Arr(elems) == [fn |-> "arr", elems |-> elems]
Tuple(elems) == [fn |-> "tuple", elems |-> elems]

Bin(name, l, r) == [fn |-> name, l |-> l, r |-> r]
Un(name, a) == [fn |-> name, a |-> a]

\* A reference read through the heap; any other value as it is.
Deref(h, v) == IF v.fn = "ref" THEN Arr(h[v.id]) ELSE v

IsNd(v) == v.fn \in {"ref", "arr"}
LenOf(h, v) == Len(Deref(h, v).elems)

\* Mutant of IsMulti: the length test is off by one.
IsMultiOffByOne(h, v) == IsNd(v) /\ LenOf(h, v) > 2

\* isinstance(v, ndarray) and len(v) > 1
IsMulti(h, v) == IsNd(v) /\ LenOf(h, v) > 1

\* Element i of an operand under numpy broadcasting.
At(v, i) == IF v.fn = "arr" THEN v.elems[IF Len(v.elems) = 1 THEN 1 ELSE i] ELSE v

BcLen(l, r) ==
    LET ll == IF l.fn = "arr" THEN Len(l.elems) ELSE 1
        rl == IF r.fn = "arr" THEN Len(r.elems) ELSE 1
    IN IF ll > rl THEN ll ELSE rl

\* Elementwise binary and unary numpy operations on dereferenced operands.
Ew2(name, l, r) ==
    IF l.fn = "arr" \/ r.fn = "arr"
    THEN Arr([i \in 1..BcLen(l, r) |-> Bin(name, At(l, i), At(r, i))])
    ELSE Bin(name, l, r)

Ew1(name, a) ==
    IF a.fn = "arr"
    THEN Arr([i \in 1..Len(a.elems) |-> Un(name, a.elems[i])])
    ELSE Un(name, a)

PAdd(l, r) == Ew2("add", l, r)
PSub(l, r) == Ew2("sub", l, r)
PMul(l, r) == Ew2("mul", l, r)
PDiv(l, r) == Ew2("div", l, r)
PPow(l, r) == Ew2("pow", l, r)
PSqrt(a) == Ew1("sqrt", a)
PExp(a) == Ew1("exp", a)
PReal(a) == Ew1("real", a)
PImag(a) == Ew1("imag", a)

\* A term that is zero whatever the external functions return.
RECURSIVE IsZero(_)
IsZero(t) ==
    CASE t.fn = "num" -> t.n = 0
      [] t.fn = "mul" -> IsZero(t.l) \/ IsZero(t.r)
      [] t.fn = "div" -> IsZero(t.l)
      [] t.fn = "sqrt" -> IsZero(t.a)
      [] OTHER -> FALSE

\* Whether scalar term t has u as a subterm.
RECURSIVE Mentions(_, _)
Mentions(t, u) ==
    \/ t = u
    \/ \E k \in (DOMAIN t) \ {"fn", "n", "id"} : Mentions(t[k], u)

\* Whether scalar term t holds a division by a zero term (numpy's inf/nan).
RECURSIVE NonFinite(_)
NonFinite(t) ==
    \/ (t.fn = "div" /\ IsZero(t.r))
    \/ \E k \in (DOMAIN t) \ {"fn", "n", "id"} : NonFinite(t[k])

----------------------------------------------------------------------------
\* The external hypergeometric evaluators (mpmath hyp2f1, hyp3f2)

AngFreq(f) == PMul(PMul(Num(2), Pi), f)

Hyp2f1Term(a, b, c, z) == [fn |-> "hyp2f1", a |-> a, b |-> b, c |-> c, z |-> z]

Hyp3f2Term(a1, a2, a3, b1, b2, z) ==
    [fn |-> "hyp3f2", a1 |-> a1, a2 |-> a2, a3 |-> a3, b1 |-> b1, b2 |-> b2, z |-> z]

\* "" when the evaluation succeeds, else the exception it raises.
HypError(kind, params) ==
    IF \E i \in 1..Len(params) : IsNd(params[i]) THEN "TypeError"
    ELSE IF noconv.fn = kind /\ Mentions(params[1], AngFreq(Num(noconv.f)))
         THEN "NoConvergence"
         ELSE ""

----------------------------------------------------------------------------
\* Frames

EmptyMf ==
    [active |-> FALSE, x |-> Unset, f |-> Unset, rq |-> Unset, sigma0 |-> Unset,
     x_is_array |-> FALSE, f_is_array |-> FALSE, chi |-> Unset, w |-> Unset,
     alpha |-> Unset, beta |-> Unset, zeta |-> Unset, a1 |-> Unset, a2 |-> Unset,
     b1 |-> Unset, mag |-> Unset, i |-> 0]

EmptySi ==
    [active |-> FALSE, f |-> Unset, rq |-> Unset, x0 |-> Unset, sigma0 |-> Unset,
     f_is_array |-> FALSE, chi |-> Unset, w |-> Unset, alpha |-> Unset,
     beta |-> Unset, zeta |-> Unset, mag |-> Unset, a1 |-> Unset, a2 |-> Unset,
     a3 |-> Unset, b1 |-> Unset, b2 |-> Unset, f0 |-> Unset, f1 |-> Unset,
     bb |-> Unset, i |-> 0]

EmptyRp ==
    [active |-> FALSE, f |-> Unset, rq |-> Unset, x0 |-> Unset, sigma0 |-> Unset,
     w |-> Unset, zs_rough |-> Unset]

NoArgs == [x |-> Unset, f |-> Unset, rq |-> Unset, x0 |-> Unset, sigma0 |-> Unset]

NoOutcome == [kind |-> "none", val |-> NoneV, err |-> ""]

\* One unit of numeric work: a parameter derivation or a hypergeometric
\* evaluation for element i (0: the scalar evaluation), and whether it succeeded.
Event(name, by, i, ok) == [fn |-> name, by |-> by, i |-> i, ok |-> ok]

\* raise: the exception starts to propagate from the innermost frame.
Raise(err) ==
    /\ exc' = err
    /\ pc' = "unwind"
    /\ UNCHANGED <<mf, si, rp, outcome>>

\* No frame has a handler: the innermost frame is popped, and the exception
\* reaches the caller once no frame is left.
Unwind ==
    /\ pc = "unwind"
    /\ IF mf.active
       THEN /\ mf' = EmptyMf
            /\ UNCHANGED <<si, rp>>
       ELSE IF si.active
            THEN /\ si' = EmptySi
                 /\ UNCHANGED <<mf, rp>>
            ELSE /\ rp' = EmptyRp
                 /\ UNCHANGED <<mf, si>>
    /\ LET outer == IF mf.active THEN si.active
                    ELSE IF si.active THEN rp.active ELSE FALSE
       IN IF outer
          THEN UNCHANGED <<pc, exc, outcome>>
          ELSE /\ outcome' = [kind |-> "raised", val |-> NoneV, err |-> exc]
               /\ exc' = ""
               /\ pc' = "done"
    /\ UNCHANGED <<op, args, heap, snap, work, last, noconv>>

----------------------------------------------------------------------------
\* Caller inputs: <<is_ndarray, literals>>; <<FALSE, <<>>>> is an omitted one

Lits(s) == [i \in 1..Len(s) |-> Num(s[i])]

Omitted == <<FALSE, <<>>>>

ArraysOver(S) == UNION {[1..n -> S] : n \in 1..MaxLen}

PosInputs == {<<FALSE, <<n>>>> : n \in PosVals} \cup {<<TRUE, a>> : a \in ArraysOver(PosVals)}

\* Frequency arrays hold distinct sample frequencies.
Distinct(a) == \A i, j \in DOMAIN a : i # j => a[i] # a[j]

FreqArrays == {b \in ArraysOver(FreqVals) : Distinct(b)}

FreqInputs == {<<FALSE, <<n>>>> : n \in FreqVals} \cup {<<TRUE, a>> : a \in FreqArrays}

\* The optional position argument: omitted (None), a scalar or an ndarray of
\* distinct positions.
X0Inputs ==
    {Omitted} \cup {<<FALSE, <<n>>>> : n \in PosVals}
        \cup {<<TRUE, a>> : a \in {b \in ArraysOver(PosVals) : Distinct(b)}}

\* The evaluators converge everywhere, or one of them fails at the highest
\* frequency (the largest |alpha|).
MaxFreq == CHOOSE n \in FreqVals : \A m \in FreqVals : m <= n

NoConvChoices ==
    {[fn |-> "none", f |-> 0]} \cup [fn : {"hyp2f1", "hyp3f2"}, f : {MaxFreq}]

\* The heap after the caller's ndarray inputs are placed on it, in order.
HeapWith(h, inp) == IF inp[1] THEN Append(h, Lits(inp[2])) ELSE h

\* The value the callee receives for input inp once it is on heap h.
Passed(h, inp) ==
    IF inp[1] THEN Ref(Len(h))
    ELSE IF inp[2] = <<>> THEN NoneV ELSE Num(inp[2][1])

\* The input a passed value came from.
InputOf(h, v) ==
    IF v.fn = "ref" THEN <<TRUE, [i \in 1..Len(h[v.id]) |-> h[v.id][i].n]>>
    ELSE IF v.fn = "num" THEN <<FALSE, <<v.n>>>> ELSE Omitted

NoLast ==
    [op |-> "none", x |-> Omitted, f |-> Omitted, rq |-> 0, x0 |-> Omitted, s |-> 0,
     res |-> NoOutcome]

\* What the caller got: the outcome with a returned array read off the heap.
ResultOf == [outcome EXCEPT !.val = Deref(heap, outcome.val)]

\* The calls a caller makes after a remembered one: the same call again, and
\* after surface_impedance the same inputs with the default position written
\* out, with the scalar frequency inside a batch, or through rough_properties.
MagFieldCalls ==
    IF last.op = "none" THEN PosInputs \X FreqInputs \X RqVals \X SigmaVals
    ELSE IF last.op = "mag_field" THEN {<<last.x, last.f, last.rq, last.s>>}
         ELSE {}

SurfaceImpedanceCalls ==
    IF last.op = "none" THEN FreqInputs \X RqVals \X X0Inputs \X SigmaVals
    ELSE IF last.op = "surface_impedance"
         THEN {<<last.f, last.rq, last.x0, last.s>>}
              \cup (IF last.x0 = Omitted
                    THEN {<<last.f, last.rq, <<FALSE, <<-5 * last.rq>>>>, last.s>>}
                    ELSE {})
              \cup (IF ~last.f[1]
                    THEN {<<<<TRUE, b>>, last.rq, last.x0, last.s>> :
                             b \in {a \in FreqArrays :
                                      \E k \in DOMAIN a : a[k] = last.f[2][1]}}
                    ELSE {})
         ELSE {}

RoughPropertiesCalls ==
    IF last.op = "none" THEN FreqInputs \X RqVals \X X0Inputs \X SigmaVals
    ELSE IF last.op \in {"rough_properties", "surface_impedance"}
         THEN {<<last.f, last.rq, last.x0, last.s>>}
         ELSE {}

Init ==
    /\ pc = "idle"
    /\ op = "none"
    /\ args = NoArgs
    /\ heap = <<>>
    /\ snap = <<>>
    /\ mf = EmptyMf
    /\ si = EmptySi
    /\ rp = EmptyRp
    /\ exc = ""
    /\ outcome = NoOutcome
    /\ work = <<>>
    /\ last = NoLast
    /\ noconv \in NoConvChoices

----------------------------------------------------------------------------
\* mag_field

NewMf(x, f, rq, sigma0) ==
    [EmptyMf EXCEPT !.active = TRUE, !.x = x, !.f = f, !.rq = rq, !.sigma0 = sigma0]

CallMagField ==
    /\ pc = "idle"
    /\ \E c \in MagFieldCalls :
          LET h1 == HeapWith(<<>>, c[1])
              xv == Passed(h1, c[1])
              h2 == HeapWith(h1, c[2])
              fv == Passed(h2, c[2])
          IN /\ heap' = h2
             /\ snap' = h2
             /\ args' = [NoArgs EXCEPT !.x = xv, !.f = fv, !.rq = Num(c[3]),
                                       !.sigma0 = Num(c[4])]
             /\ mf' = NewMf(xv, fv, Num(c[3]), Num(c[4]))
    /\ op' = "mag_field"
    /\ pc' = "mf_check"
    /\ UNCHANGED <<si, rp, exc, outcome, work, last, noconv>>

\* lines 42-46
MfCheck ==
    /\ pc = "mf_check"
    /\ LET x_is_array == IsMulti(heap, mf.x)
           f_is_array == IsMulti(heap, mf.f)
       IN IF x_is_array /\ f_is_array
          THEN Raise("ValueError")
          ELSE /\ mf' = [mf EXCEPT !.x_is_array = x_is_array,
                                   !.f_is_array = f_is_array]
               /\ pc' = "mf_derive"
               /\ UNCHANGED <<si, rp, exc, outcome>>
    /\ UNCHANGED <<op, args, heap, snap, work, last, noconv>>

MfChi(rq) == PMul(PSqrt(Num(2)), rq)
MfW(f) == PMul(PMul(Num(2), Pi), f)
MfAlpha(rq, w, sigma0) ==
    PMul(PMul(PDiv(PAdd(Num(1), ImagUnit), Num(2)), rq),
         PSqrt(PMul(PMul(Mu0, w), sigma0)))
MfBeta(alpha) ==
    PMul(Half, PSub(PSqrt(PAdd(Num(1), PMul(Num(4), PPow(alpha, Num(2))))), Num(1)))
MfZeta(x, chi) ==
    PDiv(Num(1), PAdd(Num(1), PExp(PMul(Num(2), PAdd(PDiv(x, chi), Half)))))
MfA1(alpha, beta) == PAdd(alpha, beta)
MfA2(alpha, beta) == PSub(PSub(alpha, beta), Num(1))
MfB1(alpha) == PAdd(Num(1), PMul(Num(2), alpha))

\* lines 49-65
MfDerive ==
    /\ pc = "mf_derive"
    /\ LET chi == MfChi(mf.rq)
           w == MfW(Deref(heap, mf.f))
           alpha == MfAlpha(mf.rq, w, mf.sigma0)
           beta == MfBeta(alpha)
           zeta == MfZeta(Deref(heap, mf.x), chi)
       IN mf' = [mf EXCEPT !.chi = chi, !.w = w, !.alpha = alpha, !.beta = beta,
                           !.zeta = zeta, !.a1 = MfA1(alpha, beta),
                           !.a2 = MfA2(alpha, beta), !.b1 = MfB1(alpha)]
    /\ work' = Append(work, Event("derive", "mag_field", 0, TRUE))
    /\ pc' = "mf_eval"
    /\ UNCHANGED <<op, args, heap, snap, si, rp, exc, outcome, last, noconv>>

\* Mutant of EmptyLike: no new array, the result shares the last array made.
EmptyLikeAlias(h, a) == h

\* np.empty_like(a, dtype=complex): a new array, its contents not initialised.
EmptyLike(h, a) == Append(h, [i \in 1..LenOf(h, a) |-> Uninit])

\* lines 68-69
MfAllocX ==
    /\ pc = "mf_eval"
    /\ IsMulti(heap, mf.x)
    /\ heap' = EmptyLike(heap, mf.x)
    /\ mf' = [mf EXCEPT !.mag = Ref(Len(heap')), !.i = 1]
    /\ pc' = "mf_loop_x"
    /\ UNCHANGED <<op, args, snap, si, rp, exc, outcome, work, last, noconv>>

\* A value stored into one slot of a complex array (a 1-element array converts).
Slot(v) == IF v.fn = "arr" THEN v.elems[1] ELSE v

\* lines 70-72: what iteration i raises ("" when nothing) and stores
MfParamsX(m, i) == <<m.a1, m.a2, m.b1, m.zeta.elems[i]>>

\* Mutant of MfLoopX: a failed evaluation is skipped and the loop goes on.
MfLoopXSkip ==
    /\ pc = "mf_loop_x"
    /\ LET i == mf.i
           p == MfParamsX(mf, i)
           first == Slot(PPow(p[4], mf.alpha))
           h1 == [heap EXCEPT ![mf.mag.id][i] = first]
           err == HypError("hyp2f1", p)
       IN /\ work' = Append(work, Event("hyp2f1", "mag_field", i, err = ""))
          /\ heap' = IF err # "" THEN h1
                     ELSE [h1 EXCEPT ![mf.mag.id][i] =
                              Bin("mul", first, Hyp2f1Term(p[1], p[2], p[3], p[4]))]
          /\ mf' = [mf EXCEPT !.i = i + 1]
          /\ pc' = IF i < Len(mf.zeta.elems) THEN "mf_loop_x" ELSE "mf_ret"
          /\ UNCHANGED <<si, rp, exc, outcome>>
    /\ UNCHANGED <<op, args, snap, last, noconv>>

\* lines 70-72, one position element
MfLoopX ==
    /\ pc = "mf_loop_x"
    /\ LET i == mf.i
           p == MfParamsX(mf, i)
           first == Slot(PPow(p[4], mf.alpha))
           h1 == [heap EXCEPT ![mf.mag.id][i] = first]
           err == HypError("hyp2f1", p)
       IN /\ work' = Append(work, Event("hyp2f1", "mag_field", i, err = ""))
          /\ IF err # ""
             THEN /\ heap' = h1
                  /\ Raise(err)
             ELSE /\ heap' = [h1 EXCEPT ![mf.mag.id][i] =
                                 Bin("mul", first, Hyp2f1Term(p[1], p[2], p[3], p[4]))]
                  /\ mf' = [mf EXCEPT !.i = i + 1]
                  /\ pc' = IF i < Len(mf.zeta.elems) THEN "mf_loop_x" ELSE "mf_ret"
                  /\ UNCHANGED <<si, rp, exc, outcome>>
    /\ UNCHANGED <<op, args, snap, last, noconv>>

\* lines 73-74
MfAllocF ==
    /\ pc = "mf_eval"
    /\ ~IsMulti(heap, mf.x)
    /\ IsMulti(heap, mf.f)
    /\ heap' = EmptyLike(heap, mf.f)
    /\ mf' = [mf EXCEPT !.mag = Ref(Len(heap')), !.i = 1]
    /\ pc' = "mf_loop_f"
    /\ UNCHANGED <<op, args, snap, si, rp, exc, outcome, work, last, noconv>>

\* Mutant of MfParamsF: every iteration reads element 0 of the parameters.
MfParamsFStale(m, i) ==
    <<m.a1.elems[1], m.a2.elems[1], m.b1.elems[1], m.zeta, m.alpha.elems[1]>>

\* line 76: alpha[i], a1[i], a2[i], b1[i] and the shared zeta
MfParamsF(m, i) == <<m.a1.elems[i], m.a2.elems[i], m.b1.elems[i], m.zeta, m.alpha.elems[i]>>

\* lines 75-76, one frequency element
MfLoopF ==
    /\ pc = "mf_loop_f"
    /\ LET i == mf.i
           p == MfParamsF(mf, i)
           first == PPow(p[4], p[5])
           err == HypError("hyp2f1", SubSeq(p, 1, 4))
       IN /\ work' = Append(work, Event("hyp2f1", "mag_field", i, err = ""))
          /\ IF err # ""
             THEN /\ Raise(err)
                  /\ UNCHANGED heap
             ELSE /\ heap' = [heap EXCEPT ![mf.mag.id][i] =
                                 Bin("mul", first, Hyp2f1Term(p[1], p[2], p[3], p[4]))]
                  /\ mf' = [mf EXCEPT !.i = i + 1]
                  /\ pc' = IF i < LenOf(heap, mf.f) THEN "mf_loop_f" ELSE "mf_ret"
                  /\ UNCHANGED <<si, rp, exc, outcome>>
    /\ UNCHANGED <<op, args, snap, last, noconv>>

\* lines 77-78
MfScalar ==
    /\ pc = "mf_eval"
    /\ ~IsMulti(heap, mf.x)
    /\ ~IsMulti(heap, mf.f)
    /\ LET first == PPow(mf.zeta, mf.alpha)
           p == <<mf.a1, mf.a2, mf.b1, mf.zeta>>
           err == HypError("hyp2f1", p)
       IN /\ work' = Append(work, Event("hyp2f1", "mag_field", 0, err = ""))
          /\ IF err # ""
             THEN Raise(err)
             ELSE /\ mf' = [mf EXCEPT !.mag =
                               Bin("mul", first, Hyp2f1Term(p[1], p[2], p[3], p[4]))]
                  /\ pc' = "mf_ret"
                  /\ UNCHANGED <<si, rp, exc, outcome>>
    /\ UNCHANGED <<op, args, heap, snap, last, noconv>>

\* line 80
MfReturn ==
    /\ pc = "mf_ret"
    /\ mf' = EmptyMf
    /\ IF si.active
       THEN /\ si' = [si EXCEPT !.mag = mf.mag]
            /\ pc' = "si_coeffs"
            /\ UNCHANGED outcome
       ELSE /\ outcome' = [kind |-> "returned", val |-> mf.mag, err |-> ""]
            /\ pc' = "done"
            /\ UNCHANGED si
    /\ UNCHANGED <<op, args, heap, snap, rp, exc, work, last, noconv>>

----------------------------------------------------------------------------
\* surface_impedance

NewSi(f, rq, x0, sigma0) ==
    [EmptySi EXCEPT !.active = TRUE, !.f = f, !.rq = rq, !.x0 = x0, !.sigma0 = sigma0]

CallSurfaceImpedance ==
    /\ pc = "idle"
    /\ \E c \in SurfaceImpedanceCalls :
          LET h1 == HeapWith(<<>>, c[1])
              fv == Passed(h1, c[1])
              h2 == HeapWith(h1, c[3])
              xv == Passed(h2, c[3])
          IN /\ heap' = h2
             /\ snap' = h2
             /\ args' = [NoArgs EXCEPT !.f = fv, !.rq = Num(c[2]), !.x0 = xv,
                                       !.sigma0 = Num(c[4])]
             /\ si' = NewSi(fv, Num(c[2]), xv, Num(c[4]))
    /\ op' = "surface_impedance"
    /\ pc' = "si_enter"
    /\ UNCHANGED <<mf, rp, exc, outcome, work, last, noconv>>

SiChi(rq) == PMul(PSqrt(Num(2)), rq)

\* Mutant of SiDefaultX0: the default position does not scale with rq.
SiDefaultX0Fixed(rq) == Num(-5)

\* line 104: -5 * rq, computed on the roughness literal
SiDefaultX0(rq) == Num(-5 * rq.n)

\* lines 98-104
SiEnter ==
    /\ pc = "si_enter"
    /\ si' = [si EXCEPT !.f_is_array = IsMulti(heap, si.f),
                        !.chi = SiChi(si.rq),
                        !.x0 = IF si.x0 = NoneV THEN SiDefaultX0(si.rq) ELSE si.x0]
    /\ pc' = "si_derive"
    /\ UNCHANGED <<op, args, heap, snap, mf, rp, exc, outcome, work, last, noconv>>

SiW(f) == PMul(PMul(Num(2), Pi), f)
SiAlpha(rq, w, sigma0) ==
    PMul(PMul(PDiv(PAdd(Num(1), ImagUnit), Num(2)), rq),
         PSqrt(PMul(PMul(Mu0, w), sigma0)))
SiBeta(alpha) ==
    PMul(Half, PSub(PSqrt(PAdd(Num(1), PMul(Num(4), PPow(alpha, Num(2))))), Num(1)))
SiZeta(x0, chi) ==
    PDiv(Num(1), PAdd(Num(1), PExp(PMul(Num(2), PAdd(PDiv(x0, chi), Half)))))

\* lines 107-114
SiDerive ==
    /\ pc = "si_derive"
    /\ LET w == SiW(Deref(heap, si.f))
           alpha == SiAlpha(si.rq, w, si.sigma0)
       IN si' = [si EXCEPT !.w = w, !.alpha = alpha, !.beta = SiBeta(alpha),
                           !.zeta = SiZeta(Deref(heap, si.x0), si.chi)]
    /\ work' = Append(work, Event("derive", "surface_impedance", 0, TRUE))
    /\ pc' = "si_call_mag"
    /\ UNCHANGED <<op, args, heap, snap, mf, rp, exc, outcome, last, noconv>>

\* Mutant of SiMagFrame: sigma0 is not passed on, mag_field uses its default.
SiMagFrameDefaultSigma(s) == NewMf(s.x0, s.f, s.rq, Num(Sigma0Default))

\* line 117: the frame mag_field(x0, f, rq, sigma0=sigma0) starts with
SiMagFrame(s) == NewMf(s.x0, s.f, s.rq, s.sigma0)

SiCallMag ==
    /\ pc = "si_call_mag"
    /\ mf' = SiMagFrame(si)
    /\ pc' = "mf_check"
    /\ UNCHANGED <<op, args, heap, snap, si, rp, exc, outcome, work, last, noconv>>

\* lines 121-125
SiCoeffs ==
    /\ pc = "si_coeffs"
    /\ si' = [si EXCEPT !.a1 = PSub(PAdd(Num(1), si.alpha), si.beta),
                        !.a2 = PAdd(PAdd(Num(2), si.alpha), si.beta),
                        !.a3 = si.alpha,
                        !.b1 = PAdd(Num(1), PMul(Num(2), si.alpha)),
                        !.b2 = PAdd(Num(1), si.alpha)]
    /\ pc' = "si_eval"
    /\ UNCHANGED <<op, args, heap, snap, mf, rp, exc, outcome, work, last, noconv>>

\* lines 126-128
SiAlloc ==
    /\ pc = "si_eval"
    /\ si.f_is_array
    /\ LET h1 == EmptyLike(heap, si.f)
           h2 == EmptyLike(h1, si.f)
       IN /\ heap' = h2
          /\ si' = [si EXCEPT !.f0 = Ref(Len(h1)), !.f1 = Ref(Len(h2)), !.i = 1]
    /\ pc' = "si_loop"
    /\ UNCHANGED <<op, args, snap, mf, rp, exc, outcome, work, last, noconv>>

\* line 130: the arguments of f1[i]
SiParamsF1(s, i) ==
    <<s.a1.elems[i], s.a2.elems[i], PAdd(s.a3.elems[i], Num(1)),
      s.b1.elems[i], PAdd(s.b2.elems[i], Num(1)), s.zeta>>

\* Mutant of SiParamsF0: f0[i] is evaluated with element 0 of alpha.
SiParamsF0Stale(s, i) ==
    <<s.a1.elems[i], s.a2.elems[i], s.a3.elems[1], s.b1.elems[i], s.b2.elems[i], s.zeta>>

\* line 131: the arguments of f0[i]
SiParamsF0(s, i) ==
    <<s.a1.elems[i], s.a2.elems[i], s.a3.elems[i], s.b1.elems[i], s.b2.elems[i], s.zeta>>

\* lines 129-131, one frequency element: f1[i], then f0[i]
SiLoop ==
    /\ pc = "si_loop"
    /\ LET i == si.i
           p1 == SiParamsF1(si, i)
           p0 == SiParamsF0(si, i)
           e1 == HypError("hyp3f2", p1)
           e0 == HypError("hyp3f2", p0)
           h1 == [heap EXCEPT ![si.f1.id][i] =
                     Hyp3f2Term(p1[1], p1[2], p1[3], p1[4], p1[5], p1[6])]
           w1 == Append(work, Event("hyp3f2_f1", "surface_impedance", i, e1 = ""))
       IN IF e1 # ""
          THEN /\ work' = w1
               /\ Raise(e1)
               /\ UNCHANGED heap
          ELSE /\ work' = Append(w1, Event("hyp3f2_f0", "surface_impedance", i, e0 = ""))
               /\ IF e0 # ""
                  THEN /\ heap' = h1
                       /\ Raise(e0)
                  ELSE /\ heap' = [h1 EXCEPT ![si.f0.id][i] =
                                Hyp3f2Term(p0[1], p0[2], p0[3], p0[4], p0[5], p0[6])]
                       /\ si' = [si EXCEPT !.i = i + 1]
                       /\ pc' = IF i < LenOf(heap, si.f) THEN "si_loop" ELSE "si_bb"
                       /\ UNCHANGED <<mf, rp, exc, outcome>>
    /\ UNCHANGED <<op, args, snap, last, noconv>>

\* chi / 2 * (zeta ** alpha) * (zeta / (1 + alpha) * f1 - f0 / alpha)
BbExpr(chi, zeta, alpha, f1, f0) ==
    PMul(PMul(PDiv(chi, Num(2)), PPow(zeta, alpha)),
         PSub(PMul(PDiv(zeta, PAdd(Num(1), alpha)), f1), PDiv(f0, alpha)))

\* line 132: numpy arithmetic on the filled arrays; a zero divisor gives inf/nan
SiBbArray ==
    /\ pc = "si_bb"
    /\ si' = [si EXCEPT !.bb = BbExpr(si.chi, si.zeta, si.alpha,
                                      Deref(heap, si.f1), Deref(heap, si.f0))]
    /\ pc' = "si_ret"
    /\ UNCHANGED <<op, args, heap, snap, mf, rp, exc, outcome, work, last, noconv>>

\* lines 134-136: f1 and f0 are mpmath numbers, whose division by zero raises
SiScalar ==
    /\ pc = "si_eval"
    /\ ~si.f_is_array
    /\ LET p1 == <<si.a1, si.a2, PAdd(si.a3, Num(1)), si.b1, PAdd(si.b2, Num(1)), si.zeta>>
           p0 == <<si.a1, si.a2, si.a3, si.b1, si.b2, si.zeta>>
           e1 == HypError("hyp3f2", p1)
           e0 == HypError("hyp3f2", p0)
           f1 == Hyp3f2Term(p1[1], p1[2], p1[3], p1[4], p1[5], p1[6])
           f0 == Hyp3f2Term(p0[1], p0[2], p0[3], p0[4], p0[5], p0[6])
           w1 == Append(work, Event("hyp3f2_f1", "surface_impedance", 0, e1 = ""))
       IN IF e1 # ""
          THEN /\ work' = w1
               /\ Raise(e1)
          ELSE /\ work' = Append(w1, Event("hyp3f2_f0", "surface_impedance", 0, e0 = ""))
               /\ IF e0 # ""
                  THEN Raise(e0)
                  ELSE IF IsZero(si.alpha)
                       THEN Raise("ZeroDivisionError")
                       ELSE /\ si' = [si EXCEPT !.f1 = f1, !.f0 = f0,
                                         !.bb = BbExpr(si.chi, si.zeta, si.alpha, f1, f0)]
                            /\ pc' = "si_ret"
                            /\ UNCHANGED <<mf, rp, exc, outcome>>
    /\ UNCHANGED <<op, args, heap, snap, last, noconv>>

\* -1j * mu_0 * w * bb / mag
ImpedanceExpr(w, bb, mag) ==
    PDiv(PMul(PMul(PMul(Un("neg", ImagUnit), Mu0), w), bb), mag)

\* line 138
SiReturn ==
    /\ pc = "si_ret"
    /\ LET z == ImpedanceExpr(si.w, si.bb, Deref(heap, si.mag))
       IN IF rp.active
          THEN /\ rp' = [rp EXCEPT !.zs_rough = z]
               /\ pc' = "rp_derive"
               /\ UNCHANGED outcome
          ELSE /\ outcome' = [kind |-> "returned", val |-> z, err |-> ""]
               /\ pc' = "done"
               /\ UNCHANGED rp
    /\ si' = EmptySi
    /\ UNCHANGED <<op, args, heap, snap, mf, exc, work, last, noconv>>

----------------------------------------------------------------------------
\* rough_properties

NewRp(f, rq, x0, sigma0) ==
    [EmptyRp EXCEPT !.active = TRUE, !.f = f, !.rq = rq, !.x0 = x0, !.sigma0 = sigma0]

CallRoughProperties ==
    /\ pc = "idle"
    /\ \E c \in RoughPropertiesCalls :
          LET h1 == HeapWith(<<>>, c[1])
              fv == Passed(h1, c[1])
              h2 == HeapWith(h1, c[3])
              xv == Passed(h2, c[3])
          IN /\ heap' = h2
             /\ snap' = h2
             /\ args' = [NoArgs EXCEPT !.f = fv, !.rq = Num(c[2]), !.x0 = xv,
                                       !.sigma0 = Num(c[4])]
             /\ rp' = NewRp(fv, Num(c[2]), xv, Num(c[4]))
    /\ op' = "rough_properties"
    /\ pc' = "rp_enter"
    /\ UNCHANGED <<mf, si, exc, outcome, work, last, noconv>>

RpW(f) == PMul(PMul(Num(2), Pi), f)

\* Mutant of RpSiFrame: x0 is not passed on, surface_impedance uses its default.
RpSiFrameNoX0(r) == NewSi(r.f, r.rq, NoneV, r.sigma0)

\* line 160: the frame surface_impedance(f, rq, x0=x0, sigma0=sigma0) starts with
RpSiFrame(r) == NewSi(r.f, r.rq, r.x0, r.sigma0)

\* lines 157-160
RpEnter ==
    /\ pc = "rp_enter"
    /\ rp' = [rp EXCEPT !.w = RpW(Deref(heap, rp.f))]
    /\ si' = RpSiFrame(rp)
    /\ pc' = "si_enter"
    /\ UNCHANGED <<op, args, heap, snap, mf, exc, outcome, work, last, noconv>>

\* line 163
CondEff(w, zs) == PDiv(PMul(Mu0, w), PMul(Num(2), PPow(PReal(zs), Num(2))))

\* line 166
UrEff(sigma0, w, zs) ==
    PDiv(PDiv(PMul(PMul(Num(2), sigma0), PPow(PImag(zs), Num(2))), w), Mu0)

\* lines 163-168
RpFinish ==
    /\ pc = "rp_derive"
    /\ outcome' = [kind |-> "returned",
                   val |-> Tuple(<<rp.zs_rough, CondEff(rp.w, rp.zs_rough),
                                   UrEff(rp.sigma0, rp.w, rp.zs_rough)>>),
                   err |-> ""]
    /\ rp' = EmptyRp
    /\ pc' = "done"
    /\ UNCHANGED <<op, args, heap, snap, mf, si, exc, work, last, noconv>>

----------------------------------------------------------------------------
\* The caller takes the result and lets the call's objects go; it may keep the
\* call and its result to compare a later call against.
Release ==
    /\ pc = "done"
    /\ \E keep \in BOOLEAN :
          last' = IF keep
                  THEN [op |-> op, x |-> InputOf(snap, args.x), f |-> InputOf(snap, args.f),
                        rq |-> args.rq.n, x0 |-> InputOf(snap, args.x0),
                        s |-> args.sigma0.n, res |-> ResultOf]
                  ELSE NoLast
    /\ pc' = "idle"
    /\ op' = "none"
    /\ args' = NoArgs
    /\ heap' = <<>>
    /\ snap' = <<>>
    /\ outcome' = NoOutcome
    /\ work' = <<>>
    /\ UNCHANGED <<mf, si, rp, exc, noconv>>

Next ==
    \/ CallMagField
    \/ MfCheck
    \/ MfDerive
    \/ MfAllocX
    \/ MfLoopX
    \/ MfAllocF
    \/ MfLoopF
    \/ MfScalar
    \/ MfReturn
    \/ CallSurfaceImpedance
    \/ SiEnter
    \/ SiDerive
    \/ SiCallMag
    \/ SiCoeffs
    \/ SiAlloc
    \/ SiLoop
    \/ SiBbArray
    \/ SiScalar
    \/ SiReturn
    \/ CallRoughProperties
    \/ RpEnter
    \/ RpFinish
    \/ Unwind
    \/ Release

Spec == Init /\ [][Next]_vars

----------------------------------------------------------------------------
\* What the caller passed, read off the caller's own arrays

SeqArg(v) == v.fn = "ref" /\ Len(snap[v.id]) > 1
ScalarArg(v) == v.fn = "num"
ArgElems(v) == IF v.fn = "ref" THEN snap[v.id] ELSE <<v>>

SameSiInputs ==
    /\ last.f = InputOf(snap, args.f)
    /\ last.rq = args.rq.n
    /\ last.x0 = InputOf(snap, args.x0)
    /\ last.s = args.sigma0.n

WorkBy(name) == {j \in 1..Len(work) : work[j].by = name}

----------------------------------------------------------------------------
\* C1: mag_field called with both x and f sequences of length > 1 ends in
\* ValueError, and the frame does no numeric work (no parameter derivation, no
\* hypergeometric evaluation) before raising it.
C1_ShapeRejected ==
    /\ (mf.active /\ SeqArg(mf.x) /\ SeqArg(mf.f)) =>
          /\ pc \in {"mf_check", "unwind"}
          /\ pc = "unwind" => exc = "ValueError"
          /\ WorkBy("mag_field") = {}
    /\ (pc = "done" /\ op = "mag_field" /\ SeqArg(args.x) /\ SeqArg(args.f)) =>
          /\ outcome.kind = "raised"
          /\ outcome.err = "ValueError"
          /\ work = <<>>

C1_Witness ==
    /\ pc = "done"
    /\ op = "mag_field"
    /\ SeqArg(args.x)
    /\ SeqArg(args.f)
    /\ outcome.err = "ValueError"

----------------------------------------------------------------------------
\* The field at one position and one frequency: zeta^alpha * 2F1(alpha+beta,
\* alpha-beta-1; 1+2 alpha; zeta), with the parameters of that one pair.
FieldAt(x, f, rq, sigma0) ==
    LET alpha == MfAlpha(rq, MfW(f), sigma0)
        beta == MfBeta(alpha)
        zeta == MfZeta(x, MfChi(rq))
    IN Bin("mul", Bin("pow", zeta, alpha),
           Hyp2f1Term(Bin("add", alpha, beta),
                      Bin("sub", Bin("sub", alpha, beta), Num(1)),
                      Bin("add", Num(1), Bin("mul", Num(2), alpha)), zeta))

\* C8: mag_field evaluates in one of three modes and the result has the shape
\* of the input that varied: one entry per position (shared alpha, beta), one
\* entry per frequency (shared zeta), or a single value; entry i is the field of
\* input element i alone, in input order.
C8_Modes ==
    (pc = "done" /\ op = "mag_field") =>
       LET x == args.x
           f == args.f
           v == outcome.val
       IN /\ (noconv.fn = "none" /\ (SeqArg(x) \/ ScalarArg(x))
                 /\ (SeqArg(f) \/ ScalarArg(f)) /\ ~(SeqArg(x) /\ SeqArg(f)))
                => outcome.kind = "returned"
          /\ (outcome.kind = "returned" /\ SeqArg(x) /\ ScalarArg(f)) =>
                /\ v.fn = "ref"
                /\ Len(heap[v.id]) = Len(snap[x.id])
                /\ \A i \in 1..Len(snap[x.id]) :
                      heap[v.id][i] = FieldAt(snap[x.id][i], f, args.rq, args.sigma0)
          /\ (outcome.kind = "returned" /\ ScalarArg(x) /\ SeqArg(f)) =>
                /\ v.fn = "ref"
                /\ Len(heap[v.id]) = Len(snap[f.id])
                /\ \A i \in 1..Len(snap[f.id]) :
                      heap[v.id][i] = FieldAt(x, snap[f.id][i], args.rq, args.sigma0)
          /\ (outcome.kind = "returned" /\ ScalarArg(x) /\ ScalarArg(f)) =>
                v = FieldAt(x, f, args.rq, args.sigma0)

C8_Witness ==
    /\ pc = "done"
    /\ op = "mag_field"
    /\ outcome.kind = "returned"
    /\ ScalarArg(args.x)
    /\ SeqArg(args.f)
    /\ Len(heap[outcome.val.id]) = MaxLen

----------------------------------------------------------------------------
----------------------------------------------------------------------------
\* C3: surface_impedance with x0 omitted gives the result of the same call
\* with x0 = -5*rq written out, and after the default is substituted the frame
\* holds that position.
C3_DefaultX0 ==
    /\ (op = "surface_impedance" /\ si.active /\ pc # "si_enter" /\ args.x0 = NoneV)
          => si.x0 = Num(-5 * args.rq.n)
    /\ (/\ pc = "done"
        /\ op = "surface_impedance"
        /\ last.op = "surface_impedance"
        /\ last.x0 = Omitted
        /\ InputOf(snap, args.x0) = <<FALSE, <<-5 * last.rq>>>>
        /\ last.f = InputOf(snap, args.f)
        /\ last.rq = args.rq.n
        /\ last.s = args.sigma0.n)
       => ResultOf = last.res

C3_Witness ==
    /\ pc = "done"
    /\ op = "surface_impedance"
    /\ outcome.kind = "returned"
    /\ last.op = "surface_impedance"
    /\ last.x0 = Omitted
    /\ InputOf(snap, args.x0) = <<FALSE, <<-5 * last.rq>>>>
    /\ last.f = InputOf(snap, args.f)
    /\ last.rq = args.rq.n
    /\ last.rq = 2
    /\ last.s = args.sigma0.n

----------------------------------------------------------------------------
\* mu0*(2*pi*f) / (2*Re(Z)^2) and 2*sigma0*Im(Z)^2 / (2*pi*f) / mu0 for one
\* frequency and its impedance.
CondOf(f, z) ==
    Bin("div", Bin("mul", Mu0, Bin("mul", Bin("mul", Num(2), Pi), f)),
        Bin("mul", Num(2), Bin("pow", Un("real", z), Num(2))))

UrOf(sigma0, f, z) ==
    Bin("div",
        Bin("div", Bin("mul", Bin("mul", Num(2), sigma0), Bin("pow", Un("imag", z), Num(2))),
            Bin("mul", Bin("mul", Num(2), Pi), f)),
        Mu0)

\* C4: rough_properties returns (Z, cond_eff, mu_eff) where Z is what
\* surface_impedance returns for the same f, rq, x0 and sigma0, and the other
\* two are derived from that Z and f, elementwise for sequences.
C4_Triple ==
    (/\ pc = "done"
     /\ op = "rough_properties"
     /\ last.op = "surface_impedance"
     /\ SameSiInputs
     /\ last.res.kind = "returned")
    => LET v == outcome.val
           z == last.res.val
           fs == ArgElems(args.f)
       IN /\ outcome.kind = "returned"
          /\ v.fn = "tuple"
          /\ Len(v.elems) = 3
          /\ v.elems[1] = z
          /\ IF z.fn = "arr"
             THEN /\ v.elems[2] = Arr([k \in 1..Len(z.elems) |-> CondOf(fs[k], z.elems[k])])
                  /\ v.elems[3] =
                        Arr([k \in 1..Len(z.elems) |-> UrOf(args.sigma0, fs[k], z.elems[k])])
             ELSE /\ v.elems[2] = CondOf(fs[1], z)
                  /\ v.elems[3] = UrOf(args.sigma0, fs[1], z)

C4_Witness ==
    /\ pc = "done"
    /\ op = "rough_properties"
    /\ last.op = "surface_impedance"
    /\ SameSiInputs
    /\ last.res.kind = "returned"
    /\ SeqArg(args.f)
    /\ args.x0 # NoneV

----------------------------------------------------------------------------
\* C5: the three entry points are pure: the caller's arrays keep their
\* contents, a returned array is a new one, nothing of a call is left when it
\* has ended, and a call repeated with equal inputs gives an equal result.
C5_Pure ==
    /\ Len(heap) >= Len(snap)
    /\ \A id \in 1..Len(snap) : heap[id] = snap[id]
    /\ outcome.val.fn = "ref" => outcome.val.id > Len(snap)
    /\ pc \in {"idle", "done"} => (mf = EmptyMf /\ si = EmptySi /\ rp = EmptyRp /\ exc = "")
    /\ (/\ pc = "done"
        /\ last.op = op
        /\ last.x = InputOf(snap, args.x)
        /\ SameSiInputs)
       => ResultOf = last.res

C5_Witness ==
    /\ pc = "done"
    /\ last.op = op
    /\ last.x = InputOf(snap, args.x)
    /\ SameSiInputs
    /\ outcome.kind = "returned"
    /\ SeqArg(args.f)

----------------------------------------------------------------------------
\* C6: with a zero frequency surface_impedance ends in an error; it never
\* hands back a value that holds a division by zero (inf or NaN).
C6_ZeroSurfaced ==
    (pc = "done" /\ op = "surface_impedance") =>
       /\ (\E k \in 1..Len(ArgElems(args.f)) : ArgElems(args.f)[k].n = 0)
             => outcome.kind = "raised"
       /\ outcome.kind = "returned" =>
             LET v == ResultOf.val
             IN IF v.fn = "arr" THEN \A k \in 1..Len(v.elems) : ~NonFinite(v.elems[k])
                ELSE ~NonFinite(v)

----------------------------------------------------------------------------
NoUninit(v) ==
    /\ v # Uninit
    /\ v.fn = "arr" => \A k \in 1..Len(v.elems) : v.elems[k] # Uninit

\* C9: a call in which a step fails ends in that error and returns nothing:
\* the failed evaluation is the last work done, no element is evaluated twice,
\* a returned sequence has every entry filled, and the exception reaches the
\* caller as it was raised.
C9_FailFastState ==
    /\ \A j \in 1..Len(work) : ~work[j].ok => (j = Len(work) /\ pc \in {"unwind", "done"})
    /\ \A j, k \in 1..Len(work) : j # k => work[j] # work[k]
    /\ pc = "unwind" => (exc # "" /\ outcome = NoOutcome)
    /\ (pc = "done" /\ outcome.kind = "raised") => (outcome.val = NoneV /\ outcome.err # "")
    /\ (pc = "done" /\ outcome.kind = "returned") =>
          /\ \A j \in 1..Len(work) : work[j].ok
          /\ NoUninit(ResultOf.val)
          /\ ResultOf.val.fn = "tuple" =>
                \A k \in 1..Len(ResultOf.val.elems) : NoUninit(ResultOf.val.elems[k])
    /\ pc = "done" => outcome.kind \in {"raised", "returned"}

C9_FailFastStep ==
    pc = "unwind" =>
       /\ work' = work
       /\ heap' = heap
       /\ \/ (pc' = "unwind" /\ exc' = exc /\ outcome' = outcome)
          \/ (pc' = "done" /\ outcome' = [kind |-> "raised", val |-> NoneV, err |-> exc])

C9_FailFast == []C9_FailFastState /\ [][C9_FailFastStep]_vars

C9_Witness ==
    /\ pc = "done"
    /\ op = "rough_properties"
    /\ outcome.err = "NoConvergence"
    /\ Len(work) > 3
    /\ work[Len(work)].i > 1

----------------------------------------------------------------------------
Shape(v) == IF v.fn = "arr" THEN Len(v.elems) ELSE 0

\* C10: the parameters surface_impedance derives for bb are the ones the
\* nested mag_field derives for mag (alpha, beta, zeta, also with x0 omitted),
\* both take f as array in the same cases, and bb and mag have the same shape
\* when x0 is a scalar.
C10_DerivationsAgree ==
    /\ (si.active /\ mf.active /\ pc \in {"mf_eval", "mf_loop_x", "mf_loop_f", "mf_ret"}) =>
          /\ mf.alpha = si.alpha
          /\ mf.beta = si.beta
          /\ mf.zeta = si.zeta
          /\ mf.f_is_array = si.f_is_array
    /\ (pc = "si_ret" /\ si.x0.fn = "num") =>
          Shape(si.bb) = Shape(Deref(heap, si.mag))

C10_Witness ==
    /\ si.active
    /\ mf.active
    /\ pc = "mf_ret"
    /\ args.x0 = NoneV
    /\ mf.f_is_array
    /\ args.sigma0 # Num(Sigma0Default)

====
